---- MODULE Spec2Model ----
(***************************************************************************)
(* A model of package yamlmodule (go/yamlmodule/yamlmodule.go): the two    *)
(* Starlark builtins yaml.decode and yaml.encode and the walk              *)
(* toStarlarkValue that turns the output of a YAML parse into Starlark     *)
(* values.                                                                 *)
(*                                                                         *)
(* A Go value (interface{}) is a record tagged with its reflect.Kind, a    *)
(* Starlark value a record tagged with its Starlark type.  Integers are    *)
(* kept as little-endian byte strings of their real width, so that sign    *)
(* extension and the 64-bit limits are those of the program.  A float is   *)
(* counted in halves (h = 5 is 2.5): every float of the model is exact in  *)
(* float32 and float64.  A text (YAML or JSON) is the tree of its tokens.   *)
(***************************************************************************)
EXTENDS Integers, Sequences, FiniteSets, TLC

\* Bounds of the model.
MaxLen == 3
MaxEntries == 2
NumCalls == 2

Procs == 1 .. NumCalls

-----------------------------------------------------------------------------
(* Machine integers.                                                       *)

ByteBase == 2 ^ 8
WordBytes == 2 ^ 3

ZeroBytes(n) == [i \in 1 .. n |-> 0]

\* w + 1 modulo ByteBase^Len(w)
RECURSIVE Inc(_)
Inc(w) ==
  IF w = <<>> THEN <<>>
  ELSE IF Head(w) + 1 < ByteBase THEN <<Head(w) + 1>> \o Tail(w)
  ELSE <<0>> \o Inc(Tail(w))

Complement(w) == [i \in 1 .. Len(w) |-> ByteBase - 1 - w[i]]

\* two's complement negation
Negate(w) == Inc(Complement(w))

SignBit(w) == w[Len(w)] >= ByteBase \div 2

SignExtend(w) ==
  w \o [i \in 1 .. (WordBytes - Len(w)) |-> IF SignBit(w) THEN ByteBase - 1 ELSE 0]

ZeroExtend(w) == w \o ZeroBytes(WordBytes - Len(w))

\* The bytes of a natural number below ByteBase^2, as a 64-bit word.
SmallWord(n) == <<n % ByteBase, n \div ByteBase>> \o ZeroBytes(WordBytes - 2)

SmallNat(w) == w[1] + ByteBase * w[2]

-----------------------------------------------------------------------------
(* Go values, by reflect.Kind.                                             *)

SignedKinds == {"int", "int8", "int16", "int32", "int64"}
UnsignedKinds == {"uint", "uint8", "uint16", "uint32", "uint64"}
FloatKinds == {"float32", "float64"}

\* Width in bytes of an integer kind (int and uint are 64 bits wide).
KindBytes(k) ==
  CASE k \in {"int8", "uint8"} -> 1
    [] k \in {"int16", "uint16"} -> 2
    [] k \in {"int32", "uint32"} -> 4
    [] k \in {"int", "int64", "uint", "uint64"} -> WordBytes

GoNil == [kind |-> "nil"]
GoBool(b) == [kind |-> "bool", b |-> b]
GoInt(k, w) == [kind |-> k, bytes |-> w]
GoFloat(k, h) == [kind |-> k, h |-> h]
GoString(s) == [kind |-> "string", s |-> s]
GoSlice(elems) == [kind |-> "slice", elems |-> elems]
GoMap(entries) == [kind |-> "map", entries |-> entries]
\* A value of a kind the walk does not know (a struct, a pointer, ...).
GoStruct == [kind |-> "struct"]

\* The contents of a string that is no document: plain characters.
Chars(c) == [tk |-> "chars", c |-> c]

-----------------------------------------------------------------------------
(* Starlark values.                                                        *)

None == [t |-> "NoneType"]
Bool(b) == [t |-> "bool", b |-> b]
StarInt(neg, mag) == [t |-> "int", neg |-> neg, mag |-> mag]
Float(h) == [t |-> "float", h |-> h]
String(s) == [t |-> "string", s |-> s]
NewList(elems) == [t |-> "list", elems |-> elems]
\* A dict holds its items in insertion order.
Dict(items) == [t |-> "dict", items |-> items]
\* A value the JSON encoder has no form for.
Function == [t |-> "function"]

\* Go's nil, as a returned value or a returned error.
Nil == [t |-> "nil"]
NoErr == [e |-> "nil"]

MakeInt64(w) ==
  IF SignBit(w) THEN StarInt(TRUE, Negate(w)) ELSE StarInt(FALSE, w)

MakeUint64(w) == StarInt(FALSE, w)

\* reflect.Value.Int and reflect.Value.Uint widen to 64 bits.
ReflectInt(obj) == SignExtend(obj.bytes)
ReflectUint(obj) == ZeroExtend(obj.bytes)

\* A mutant: the unsigned kinds go through int64.
toStarlarkScalarValueSigned(obj) ==
  IF obj.kind = "nil" THEN [val |-> None, ok |-> TRUE]
  ELSE IF obj.kind \in SignedKinds
    THEN [val |-> MakeInt64(ReflectInt(obj)), ok |-> TRUE]
  ELSE IF obj.kind \in UnsignedKinds
    THEN [val |-> MakeInt64(ReflectUint(obj)), ok |-> TRUE]
  ELSE IF obj.kind = "bool" THEN [val |-> Bool(obj.b), ok |-> TRUE]
  ELSE IF obj.kind \in FloatKinds THEN [val |-> Float(obj.h), ok |-> TRUE]
  ELSE IF obj.kind = "string" THEN [val |-> String(obj.s), ok |-> TRUE]
  ELSE [val |-> Nil, ok |-> FALSE]

toStarlarkScalarValue(obj) ==
  IF obj.kind = "nil" THEN [val |-> None, ok |-> TRUE]
  ELSE IF obj.kind \in SignedKinds
    THEN [val |-> MakeInt64(ReflectInt(obj)), ok |-> TRUE]
  ELSE IF obj.kind \in UnsignedKinds
    THEN [val |-> MakeUint64(ReflectUint(obj)), ok |-> TRUE]
  ELSE IF obj.kind = "bool" THEN [val |-> Bool(obj.b), ok |-> TRUE]
  ELSE IF obj.kind \in FloatKinds THEN [val |-> Float(obj.h), ok |-> TRUE]
  ELSE IF obj.kind = "string" THEN [val |-> String(obj.s), ok |-> TRUE]
  ELSE [val |-> Nil, ok |-> FALSE]

\* The two errors of toStarlarkValue: the message names the kind and prints obj.
KeyError(obj) ==
  [e |-> "is not a supported key type", kind |-> obj.kind, obj |-> obj]
TypeError(obj) ==
  [e |-> "is not a supported type", kind |-> obj.kind, obj |-> obj]

-----------------------------------------------------------------------------
(* starlark.Dict: keys are compared as Starlark compares them, an int and  *)
(* a float of the same value being one key.                                *)

\* The int with the value of the whole float x.
IntOfFloat(x) ==
  IF x.h >= 0 THEN StarInt(FALSE, SmallWord(x.h \div 2))
  ELSE StarInt(TRUE, SmallWord((0 - x.h) \div 2))

IsZeroInt(x) == x.mag = ZeroBytes(WordBytes)

IntEqual(x, y) == x.mag = y.mag /\ (x.neg = y.neg \/ IsZeroInt(x))

Equal(x, y) ==
  IF x.t = "int" /\ y.t = "int" THEN IntEqual(x, y)
  ELSE IF x.t = "int" /\ y.t = "float"
    THEN y.h % 2 = 0 /\ IntEqual(x, IntOfFloat(y))
  ELSE IF x.t = "float" /\ y.t = "int"
    THEN x.h % 2 = 0 /\ IntEqual(IntOfFloat(x), y)
  ELSE x = y

\* The index of key k among the items, 0 when it is not there.
Find(items, k) ==
  IF \E i \in 1 .. Len(items) : Equal(items[i][1], k)
    THEN CHOOSE i \in 1 .. Len(items) : Equal(items[i][1], k)
  ELSE 0

\* A mutant: a second item is not stored.
SetKeyFirstOnly(items, k, v) ==
  IF items = <<>> THEN [items |-> <<<<k, v>>>>, err |-> NoErr]
  ELSE [items |-> items, err |-> NoErr]

\* Dict.SetKey: an equal key keeps its place and its first form and takes the
\* new value; a new key goes last.  Every scalar is hashable: no error.
SetKey(items, k, v) ==
  IF Find(items, k) # 0
    THEN [items |-> [items EXCEPT ![Find(items, k)] = <<items[Find(items, k)][1], v>>],
          err |-> NoErr]
  ELSE [items |-> Append(items, <<k, v>>), err |-> NoErr]

-----------------------------------------------------------------------------
(* Texts.  A JSON or YAML text is the tree of its tokens; a number token   *)
(* is its sign, its integer digits (as bytes) and its fraction as written. *)

TNull == [tk |-> "null"]
TBool(b) == [tk |-> "bool", b |-> b]
TNum(neg, mag, frac) == [tk |-> "num", neg |-> neg, mag |-> mag, frac |-> frac]
\* a quoted string
TStr(s) == [tk |-> "str", s |-> s]
TSeq(items) == [tk |-> "seq", items |-> items]
\* a mapping: its "key: value" pairs, no key written twice
TMap(pairs) == [tk |-> "map", pairs |-> pairs]
\* a text that is no YAML document
TBad == [tk |-> "bad"]
Unset == [tk |-> "unset"]

Abs(n) == IF n < 0 THEN 0 - n ELSE n

\* The number token of a float: strconv's shortest form for the fraction.
FloatDigits(h, whole) ==
  TNum(h < 0, SmallWord(Abs(h) \div 2), IF h % 2 = 0 THEN whole ELSE ".5")

JSONError(v) == [e |-> "can't be converted to JSON", t |-> v.t, v |-> v]

\* writeJSON: the JSON text of a Starlark value, or the error of the first
\* value (in the order of the walk) that JSON has no form for.  A dict key
\* has to be a string.
RECURSIVE writeJSON(_), writeJSONList(_, _), writeJSONDict(_, _)
writeJSON(v) ==
  CASE v.t = "NoneType" -> [text |-> TNull, err |-> NoErr]
    [] v.t = "bool" -> [text |-> TBool(v.b), err |-> NoErr]
    [] v.t = "int" -> [text |-> TNum(v.neg, v.mag, ""), err |-> NoErr]
    [] v.t = "float" -> [text |-> FloatDigits(v.h, ".0"), err |-> NoErr]
    [] v.t = "string" -> [text |-> TStr(v.s), err |-> NoErr]
    [] v.t = "list" -> writeJSONList(v.elems, <<>>)
    [] v.t = "dict" -> writeJSONDict(v.items, {})
    [] OTHER -> [text |-> TBad, err |-> JSONError(v)]

writeJSONList(elems, done) ==
  IF elems = <<>> THEN [text |-> TSeq(done), err |-> NoErr]
  ELSE LET r == writeJSON(Head(elems))
       IN IF r.err # NoErr THEN r
          ELSE writeJSONList(Tail(elems), Append(done, r.text))

writeJSONDict(items, done) ==
  IF items = <<>> THEN [text |-> TMap(done), err |-> NoErr]
  ELSE LET k == Head(items)[1]
           r == writeJSON(Head(items)[2])
       IN IF k.t # "string" THEN [text |-> TBad, err |-> JSONError(k)]
          ELSE IF r.err # NoErr THEN r
          ELSE writeJSONDict(Tail(items), done \cup {<<TStr(k.s), r.text>>})

\* The integer an integer literal resolves to: an int when it fits 64 signed
\* bits, else a uint64.
ResolveInt(neg, mag) ==
  CASE neg /\ (~SignBit(mag) \/ mag = Negate(mag)) -> GoInt("int", Negate(mag))
    [] ~neg /\ ~SignBit(mag) -> GoInt("int", mag)
    [] ~neg /\ SignBit(mag) -> GoInt("uint64", mag)

ResolveFloat(neg, mag, frac) ==
  LET h == 2 * SmallNat(mag) + (IF frac = ".5" THEN 1 ELSE 0)
  IN GoFloat("float64", IF neg THEN 0 - h ELSE h)

\* yaml.v2's resolution of a parsed document into interface{} values.
RECURSIVE Resolve(_)
Resolve(tok) ==
  CASE tok.tk = "null" -> GoNil
    [] tok.tk = "bool" -> GoBool(tok.b)
    [] tok.tk = "num" ->
         IF tok.frac = "" THEN ResolveInt(tok.neg, tok.mag)
         ELSE ResolveFloat(tok.neg, tok.mag, tok.frac)
    [] tok.tk = "str" -> GoString(tok.s)
    [] tok.tk = "chars" -> GoString(tok)
    [] tok.tk = "seq" -> GoSlice([i \in 1 .. Len(tok.items) |-> Resolve(tok.items[i])])
    [] tok.tk = "map" -> GoMap({<<Resolve(pr[1]), Resolve(pr[2])>> : pr \in tok.pairs})

YAMLError(text) == [e |-> "yaml: cannot unmarshal", text |-> text]

\* yaml.Unmarshal
Unmarshal(text) ==
  IF text.tk \in {"bad", "unset"} THEN [val |-> GoNil, err |-> YAMLError(text)]
  ELSE [val |-> Resolve(text), err |-> NoErr]

\* yaml.Marshal: the text of a value; a float is written in its shortest
\* form, a whole float without a fraction.
RECURSIVE Marshal(_)
Marshal(obj) ==
  CASE obj.kind = "nil" -> TNull
    [] obj.kind = "bool" -> TBool(obj.b)
    [] obj.kind \in SignedKinds ->
         LET x == MakeInt64(ReflectInt(obj)) IN TNum(x.neg, x.mag, "")
    [] obj.kind \in UnsignedKinds -> TNum(FALSE, ReflectUint(obj), "")
    [] obj.kind \in FloatKinds -> FloatDigits(obj.h, "")
    [] obj.kind = "string" -> TStr(obj.s)
    [] obj.kind = "slice" -> TSeq([i \in 1 .. Len(obj.elems) |-> Marshal(obj.elems[i])])
    [] obj.kind = "map" -> TMap({<<Marshal(en[1]), Marshal(en[2])>> : en \in obj.entries})

\* The error the YAML library returns to yamlEncode when it fails there.  The
\* JSON that writeJSON gives always parses, so whether the library fails is
\* set by the call's environment (call[p].fault).
FaultError(step) == [e |-> "yaml", step |-> step]

\* starlark.UnpackPositionalArgs(name, args, kwargs, min, vars...) with one
\* variable of type want ("string", or "Value" for any value).
UnpackPositionalArgs(args, kwargs, min, want) ==
  IF Len(kwargs) > 0 THEN [e |-> "unexpected keyword arguments"]
  ELSE IF Len(args) < min THEN [e |-> "got too few arguments", n |-> Len(args)]
  ELSE IF Len(args) > 1 THEN [e |-> "got too many arguments", n |-> Len(args)]
  ELSE IF Len(args) = 1 /\ want = "string" /\ args[1].t # "string"
    THEN [e |-> "for parameter 1: want string", t |-> args[1].t]
  ELSE NoErr

-----------------------------------------------------------------------------
(* The calls.  Each call p runs one entry point: yaml.decode, yaml.encode, *)
(* or toStarlarkValue itself ("convert").                                  *)

VARIABLES
  call,      \* call[p]: the entry point, its arguments, and the YAML library's fault
  pc,        \* pc[p]: the statement call p is at
  stack,     \* stack[p]: the frames of the toStarlarkValue walk, innermost first
  ret,       \* ret[p]: what the callee last entered has returned to the frame on top
  blob,      \* yamlDecode's blob
  inflated,  \* yamlDecode's inflated
  buf,       \* yamlEncode's buf, by storage
  jsonObj,   \* yamlEncode's jsonObj
  yamlBytes, \* yamlEncode's yamlBytes
  out,       \* out[p]: the value and the error the call returned
  trace      \* trace[p]: the encoder's steps that ran, each with its success

vars == <<call, pc, stack, ret, blob, inflated, buf, jsonObj, yamlBytes, out, trace>>

NoRet == [st |-> "none"]
Ret(val, err) == [st |-> "ret", val |-> val, err |-> err]

Idle == [fn |-> "idle", args |-> <<>>, kwargs |-> <<>>, fault |-> "none",
         rt |-> FALSE, orig |-> Nil]
Call(fn, args, kwargs, fault) ==
  [fn |-> fn, args |-> args, kwargs |-> kwargs, fault |-> fault,
   rt |-> FALSE, orig |-> Nil]

\* A mutant: one buffer for all calls.
BufOfShared(p) == 1

\* The storage of yamlEncode's buf: a variable of the call.
BufOf(p) == p

MapFrame(obj) ==
  [f |-> "map", obj |-> obj, todo |-> obj.entries, ret |-> <<>>, keyval |-> Nil]
SliceFrame(obj) ==
  [f |-> "slice", obj |-> obj, i |-> 0,
   starvals |-> [j \in 1 .. Len(obj.elems) |-> Nil]]

\* Entering toStarlarkValue(obj): a scalar and an unknown kind return at once,
\* a map and a slice start their loop.  (The maps and slices of the model are
\* map[interface{}]interface{} and []interface{}, what a YAML parse gives.)
Enter(obj) ==
  LET s == toStarlarkScalarValue(obj)
  IN IF s.ok THEN [push |-> <<>>, ret |-> Ret(s.val, NoErr)]
     ELSE IF obj.kind = "map" THEN [push |-> <<MapFrame(obj)>>, ret |-> NoRet]
     ELSE IF obj.kind = "slice" THEN [push |-> <<SliceFrame(obj)>>, ret |-> NoRet]
     ELSE [push |-> <<>>, ret |-> Ret(Nil, TypeError(obj))]

Top(p) == Head(stack[p])
Walking(p, f) == pc[p] = "convert" /\ stack[p] # <<>> /\ Top(p).f = f

UnchangedLocals == UNCHANGED <<blob, inflated, buf, jsonObj, yamlBytes, trace>>

\* A mutant: an entry whose key is no scalar is left out.
MapNextSkip(p) ==
  /\ Walking(p, "map") /\ ret[p] = NoRet
  /\ \E en \in Top(p).todo :
       LET keyval == toStarlarkScalarValue(en[1])
           fr == [Top(p) EXCEPT !.todo = @ \ {en}, !.keyval = keyval.val]
           in == Enter(en[2])
       IN IF ~keyval.ok
            THEN /\ stack' = [stack EXCEPT ![p] = <<[Top(p) EXCEPT !.todo = @ \ {en}]>> \o Tail(@)]
                 /\ ret' = ret
          ELSE /\ stack' = [stack EXCEPT ![p] = in.push \o <<fr>> \o Tail(@)]
               /\ ret' = [ret EXCEPT ![p] = in.ret]
  /\ UNCHANGED <<call, pc, out>> /\ UnchangedLocals

\* The map loop takes its next entry, in whatever order the map yields it:
\* the key through toStarlarkScalarValue, the value through toStarlarkValue.
MapNext(p) ==
  /\ Walking(p, "map") /\ ret[p] = NoRet
  /\ \E en \in Top(p).todo :
       LET keyval == toStarlarkScalarValue(en[1])
           fr == [Top(p) EXCEPT !.todo = @ \ {en}, !.keyval = keyval.val]
           in == Enter(en[2])
       IN IF ~keyval.ok
            THEN /\ stack' = [stack EXCEPT ![p] = Tail(@)]
                 /\ ret' = [ret EXCEPT ![p] = Ret(Nil, KeyError(Top(p).obj))]
          ELSE /\ stack' = [stack EXCEPT ![p] = in.push \o <<fr>> \o Tail(@)]
               /\ ret' = [ret EXCEPT ![p] = in.ret]
  /\ UNCHANGED <<call, pc, out>> /\ UnchangedLocals

\* A mutant: an entry whose value fails is left out once the dict has an item.
MapRecvLenient(p) ==
  /\ Walking(p, "map") /\ ret[p] # NoRet
  /\ LET r == SetKey(Top(p).ret, Top(p).keyval, ret[p].val)
     IN IF ret[p].err # NoErr /\ Top(p).ret = <<>>
          THEN stack' = [stack EXCEPT ![p] = Tail(@)] /\ ret' = ret
        ELSE IF ret[p].err # NoErr
          THEN stack' = stack /\ ret' = [ret EXCEPT ![p] = NoRet]
        ELSE /\ stack' = [stack EXCEPT ![p] = <<[Top(p) EXCEPT !.ret = r.items]>> \o Tail(@)]
             /\ ret' = [ret EXCEPT ![p] = NoRet]
  /\ UNCHANGED <<call, pc, out>> /\ UnchangedLocals

\* A mutant: the dict built so far is returned along with the error.
MapRecvPartial(p) ==
  /\ Walking(p, "map") /\ ret[p] # NoRet
  /\ LET r == SetKey(Top(p).ret, Top(p).keyval, ret[p].val)
     IN IF ret[p].err # NoErr
          THEN /\ stack' = [stack EXCEPT ![p] = Tail(@)]
               /\ ret' = [ret EXCEPT ![p] = Ret(Dict(Top(p).ret), ret[p].err)]
        ELSE /\ stack' = [stack EXCEPT ![p] = <<[Top(p) EXCEPT !.ret = r.items]>> \o Tail(@)]
             /\ ret' = [ret EXCEPT ![p] = NoRet]
  /\ UNCHANGED <<call, pc, out>> /\ UnchangedLocals

\* The map loop gets the value back: its error ends the walk of the map, else
\* the pair is stored with SetKey.
MapRecv(p) ==
  /\ Walking(p, "map") /\ ret[p] # NoRet
  /\ LET r == SetKey(Top(p).ret, Top(p).keyval, ret[p].val)
     IN IF ret[p].err # NoErr
          THEN stack' = [stack EXCEPT ![p] = Tail(@)] /\ ret' = ret
        ELSE IF r.err # NoErr
          THEN /\ stack' = [stack EXCEPT ![p] = Tail(@)]
               /\ ret' = [ret EXCEPT ![p] = Ret(Nil, r.err)]
        ELSE /\ stack' = [stack EXCEPT ![p] = <<[Top(p) EXCEPT !.ret = r.items]>> \o Tail(@)]
             /\ ret' = [ret EXCEPT ![p] = NoRet]
  /\ UNCHANGED <<call, pc, out>> /\ UnchangedLocals

\* The map loop is over: the dict is returned.
MapDone(p) ==
  /\ Walking(p, "map") /\ ret[p] = NoRet /\ Top(p).todo = {}
  /\ stack' = [stack EXCEPT ![p] = Tail(@)]
  /\ ret' = [ret EXCEPT ![p] = Ret(Dict(Top(p).ret), NoErr)]
  /\ UNCHANGED <<call, pc, out>> /\ UnchangedLocals

\* The slice loop converts its next element.
SliceNext(p) ==
  /\ Walking(p, "slice") /\ ret[p] = NoRet
  /\ Top(p).i < Len(Top(p).obj.elems)
  /\ LET in == Enter(Top(p).obj.elems[Top(p).i + 1])
     IN /\ stack' = [stack EXCEPT ![p] = in.push \o @]
        /\ ret' = [ret EXCEPT ![p] = in.ret]
  /\ UNCHANGED <<call, pc, out>> /\ UnchangedLocals

\* A mutant: the loop goes on after an element failed and returns the error at
\* its end.
SliceRecvLate(p) ==
  /\ Walking(p, "slice") /\ ret[p] # NoRet
  /\ LET fr == [Top(p) EXCEPT !.i = @ + 1, !.starvals[Top(p).i + 1] = ret[p].val]
     IN IF ret[p].err # NoErr /\ Top(p).i + 1 = Len(Top(p).obj.elems)
          THEN stack' = [stack EXCEPT ![p] = Tail(@)] /\ ret' = ret
        ELSE /\ stack' = [stack EXCEPT ![p] = <<fr>> \o Tail(@)]
             /\ ret' = [ret EXCEPT ![p] = NoRet]
  /\ UNCHANGED <<call, pc, out>> /\ UnchangedLocals

\* The slice loop gets the element back: its error ends the walk of the
\* slice, else it is stored at its index.
SliceRecv(p) ==
  /\ Walking(p, "slice") /\ ret[p] # NoRet
  /\ LET fr == [Top(p) EXCEPT !.i = @ + 1, !.starvals[Top(p).i + 1] = ret[p].val]
     IN IF ret[p].err # NoErr
          THEN stack' = [stack EXCEPT ![p] = Tail(@)] /\ ret' = ret
        ELSE /\ stack' = [stack EXCEPT ![p] = <<fr>> \o Tail(@)]
             /\ ret' = [ret EXCEPT ![p] = NoRet]
  /\ UNCHANGED <<call, pc, out>> /\ UnchangedLocals

\* The slice loop is over: the list is returned.
SliceDone(p) ==
  /\ Walking(p, "slice") /\ ret[p] = NoRet
  /\ Top(p).i = Len(Top(p).obj.elems)
  /\ stack' = [stack EXCEPT ![p] = Tail(@)]
  /\ ret' = [ret EXCEPT ![p] = Ret(NewList(Top(p).starvals), NoErr)]
  /\ UNCHANGED <<call, pc, out>> /\ UnchangedLocals

\* The outermost toStarlarkValue returns to its caller, which returns it.
WalkReturn(p) ==
  /\ pc[p] = "convert" /\ stack[p] = <<>> /\ ret[p] # NoRet
  /\ out' = [out EXCEPT ![p] = [val |-> ret[p].val, err |-> ret[p].err]]
  /\ pc' = [pc EXCEPT ![p] = "done"]
  /\ UNCHANGED <<call, stack, ret>> /\ UnchangedLocals

\* toStarlarkValue called on a Go value.
Convert(p) ==
  /\ pc[p] = "start" /\ call[p].fn = "convert"
  /\ LET in == Enter(call[p].args[1])
     IN stack' = [stack EXCEPT ![p] = in.push] /\ ret' = [ret EXCEPT ![p] = in.ret]
  /\ pc' = [pc EXCEPT ![p] = "convert"]
  /\ UNCHANGED <<call, out>> /\ UnchangedLocals

-----------------------------------------------------------------------------
(* The entry points.                                                       *)

Return(p, val, err) ==
  /\ out' = [out EXCEPT ![p] = [val |-> val, err |-> err]]
  /\ pc' = [pc EXCEPT ![p] = "done"]

\* yamlDecode unpacks its one argument, a string.  It hands
\* UnpackPositionalArgs nil for the keyword arguments, not its own kwargs.
yamlDecodeUnpack(p) ==
  /\ pc[p] = "start" /\ call[p].fn = "decode"
  /\ LET err == UnpackPositionalArgs(call[p].args, <<>>, 1, "string")
     IN IF err # NoErr THEN Return(p, Nil, err) /\ blob' = blob
        ELSE /\ blob' = [blob EXCEPT ![p] = call[p].args[1].s]
             /\ pc' = [pc EXCEPT ![p] = "unmarshal"]
             /\ out' = out
  /\ UNCHANGED <<call, stack, ret, inflated, buf, jsonObj, yamlBytes, trace>>

\* yamlDecode parses the blob.
yamlDecodeUnmarshal(p) ==
  /\ pc[p] = "unmarshal" /\ call[p].fn = "decode"
  /\ LET r == Unmarshal(blob[p])
     IN IF r.err # NoErr THEN Return(p, Nil, r.err) /\ inflated' = inflated
        ELSE /\ inflated' = [inflated EXCEPT ![p] = r.val]
             /\ pc' = [pc EXCEPT ![p] = "walk"]
             /\ out' = out
  /\ UNCHANGED <<call, stack, ret, blob, buf, jsonObj, yamlBytes, trace>>

\* yamlDecode calls toStarlarkValue on what the parse gave.
yamlDecodeConvert(p) ==
  /\ pc[p] = "walk" /\ call[p].fn = "decode"
  /\ LET in == Enter(inflated[p])
     IN stack' = [stack EXCEPT ![p] = in.push] /\ ret' = [ret EXCEPT ![p] = in.ret]
  /\ pc' = [pc EXCEPT ![p] = "convert"]
  /\ UNCHANGED <<call, out>> /\ UnchangedLocals

\* yamlEncode unpacks its one argument, any value, the same way.
yamlEncodeUnpack(p) ==
  /\ pc[p] = "start" /\ call[p].fn = "encode"
  /\ LET err == UnpackPositionalArgs(call[p].args, <<>>, 1, "Value")
     IN IF err # NoErr THEN Return(p, Nil, err)
        ELSE pc' = [pc EXCEPT ![p] = "writeJSON"] /\ out' = out
  /\ UNCHANGED <<call, stack, ret>> /\ UnchangedLocals

\* yamlEncode writes the value's JSON into buf.
yamlEncodeWriteJSON(p) ==
  /\ pc[p] = "writeJSON" /\ call[p].fn = "encode"
  /\ LET r == writeJSON(call[p].args[1])
     IN /\ buf' = [buf EXCEPT ![BufOf(p)] = r.text]
        /\ trace' = [trace EXCEPT ![p] = Append(@, <<"writeJSON", r.err = NoErr>>)]
        /\ IF r.err # NoErr THEN Return(p, Nil, r.err)
           ELSE pc' = [pc EXCEPT ![p] = "unmarshal"] /\ out' = out
  /\ UNCHANGED <<call, stack, ret, blob, inflated, jsonObj, yamlBytes>>

\* A mutant: the error of the parse is not looked at.
yamlEncodeUnmarshalUnchecked(p) ==
  /\ pc[p] = "unmarshal" /\ call[p].fn = "encode"
  /\ LET r == IF call[p].fault = "unmarshal"
                THEN [val |-> GoNil, err |-> FaultError("unmarshal")]
              ELSE Unmarshal(buf[BufOf(p)])
     IN /\ trace' = [trace EXCEPT ![p] = Append(@, <<"unmarshal", r.err = NoErr>>)]
        /\ jsonObj' = [jsonObj EXCEPT ![p] = r.val]
        /\ pc' = [pc EXCEPT ![p] = "marshal"]
        /\ out' = out
  /\ UNCHANGED <<call, stack, ret, blob, inflated, buf, yamlBytes>>

\* yamlEncode parses the bytes of buf as YAML.
yamlEncodeUnmarshal(p) ==
  /\ pc[p] = "unmarshal" /\ call[p].fn = "encode"
  /\ LET r == IF call[p].fault = "unmarshal"
                THEN [val |-> GoNil, err |-> FaultError("unmarshal")]
              ELSE Unmarshal(buf[BufOf(p)])
     IN /\ trace' = [trace EXCEPT ![p] = Append(@, <<"unmarshal", r.err = NoErr>>)]
        /\ IF r.err # NoErr THEN Return(p, Nil, r.err) /\ jsonObj' = jsonObj
           ELSE /\ jsonObj' = [jsonObj EXCEPT ![p] = r.val]
                /\ pc' = [pc EXCEPT ![p] = "marshal"]
                /\ out' = out
  /\ UNCHANGED <<call, stack, ret, blob, inflated, buf, yamlBytes>>

\* yamlEncode writes jsonObj as YAML and returns the text as a string.
yamlEncodeMarshal(p) ==
  /\ pc[p] = "marshal" /\ call[p].fn = "encode"
  /\ LET r == IF call[p].fault = "marshal"
                THEN [text |-> Unset, err |-> FaultError("marshal")]
              ELSE [text |-> Marshal(jsonObj[p]), err |-> NoErr]
     IN /\ trace' = [trace EXCEPT ![p] = Append(@, <<"marshal", r.err = NoErr>>)]
        /\ yamlBytes' = [yamlBytes EXCEPT ![p] = r.text]
        /\ IF r.err # NoErr THEN Return(p, Nil, r.err)
           ELSE Return(p, String(r.text), NoErr)
  /\ UNCHANGED <<call, stack, ret, blob, inflated, buf, jsonObj>>

\* The caller of an encode that returned a text decodes that text.
RoundTrip(p) ==
  /\ pc[p] = "done" /\ call[p].fn = "encode" /\ out[p].err = NoErr
  /\ call' = [call EXCEPT ![p] = [fn |-> "decode", args |-> <<out[p].val>>,
                                  kwargs |-> <<>>, fault |-> "none", rt |-> TRUE,
                                  orig |-> call[p].args[1]]]
  /\ pc' = [pc EXCEPT ![p] = "start"]
  /\ out' = [out EXCEPT ![p] = [val |-> Nil, err |-> NoErr]]
  /\ UNCHANGED <<stack, ret>> /\ UnchangedLocals

-----------------------------------------------------------------------------
(* The inputs.                                                             *)

AllOnes(n) == [i \in 1 .. n |-> ByteBase - 1]
MaxPositive(n) == [i \in 1 .. n |-> IF i = n THEN ByteBase \div 2 - 1 ELSE ByteBase - 1]
MinNegative(n) == [i \in 1 .. n |-> IF i = n THEN ByteBase \div 2 ELSE 0]
Patterns(n) ==
  {ZeroBytes(n), <<1>> \o ZeroBytes(n - 1), AllOnes(n), MaxPositive(n), MinNegative(n)}

StrA == GoString(Chars("a"))
One == GoInt("int", SmallWord(1))
OneF == GoFloat("float64", 2)

ScalarInputs ==
  {GoNil, GoBool(TRUE), GoBool(FALSE), GoString(Chars("")), StrA}
    \cup {GoFloat(k, h) : k \in FloatKinds, h \in {0, 2, 5, 0 - 3}}

\* Every integer kind, at its own width: zero, one, all bits set, the largest
\* and the smallest signed value.
IntInputs ==
  UNION {{GoInt(k, w) : w \in Patterns(KindBytes(k))} : k \in SignedKinds \cup UnsignedKinds}

\* Map keys: a string, an int and a float that are one Starlark key, and two
\* keys that are no scalars.
Keys == {StrA, One, OneF, GoSlice(<<StrA>>), GoMap({})}

Inner ==
  {GoSlice(<<GoStruct>>),
   GoSlice(<<One, StrA>>),
   GoSlice(<<GoMap({<<StrA, GoStruct>>})>>),
   GoMap({<<GoSlice(<<StrA>>), One>>}),
   GoMap({<<StrA, GoFloat("float64", 5)>>})}

Elems == {One, StrA, GoStruct} \cup Inner

Slices == UNION {{GoSlice(s) : s \in [1 .. n -> Elems]} : n \in 0 .. MaxLen}

Maps ==
  UNION {{GoMap({<<k, m[k]>> : k \in ks}) : m \in [ks -> Elems]} :
           ks \in {ks \in SUBSET Keys : Cardinality(ks) <= MaxEntries}}

ConvertCalls ==
  {Call("convert", <<obj>>, <<>>, "none") :
     obj \in ScalarInputs \cup IntInputs \cup Slices \cup Maps}

TOne == TNum(FALSE, SmallWord(1), "")
TOneF == TNum(FALSE, SmallWord(1), ".0")
TTwoHalf == TNum(FALSE, SmallWord(2), ".5")

Texts ==
  {TBad, Chars("a"),
   TSeq(<<TOne, TTwoHalf, TNull>>),
   TMap({<<Chars("hello"), TSeq(<<Chars("world")>>)>>}),
   TMap({<<TOne, Chars("a")>>, <<TOneF, Chars("b")>>}),
   TMap({<<Chars("a"), TOne>>, <<Chars("b"), TTwoHalf>>,
         <<Chars("c"), TBool(TRUE)>>, <<Chars("d"), TNull>>})}

Kwargs == {<<>>, <<<<"strict", Bool(TRUE)>>>>}

IntOne == StarInt(FALSE, SmallWord(1))
SA == String(Chars("a"))

Values ==
  {None, Bool(TRUE), IntOne, StarInt(TRUE, SmallWord(1)),
   StarInt(FALSE, AllOnes(WordBytes)), StarInt(TRUE, MinNegative(WordBytes)),
   Float(2), Float(5), Float(0 - 3), SA,
   NewList(<<IntOne, SA>>), NewList(<<None, Function>>), Function,
   Dict(<<<<String(Chars("hello")), NewList(<<String(Chars("world"))>>)>>>>),
   Dict(<<<<SA, IntOne>>, <<String(Chars("b")), Float(5)>>>>),
   Dict(<<<<IntOne, None>>>>)}

ArgLists(S) == {<<>>} \cup {<<x>> : x \in S} \cup {<<x, x>> : x \in S}

DecodeCalls ==
  {Call("decode", args, kw, "none") :
     args \in ArgLists({String(t) : t \in Texts} \cup {IntOne}), kw \in Kwargs}

EncodeCalls ==
  {Call("encode", args, kw, f) :
     args \in ArgLists(Values), kw \in Kwargs, f \in {"none", "unmarshal", "marshal"}}

Calls == ConvertCalls \cup DecodeCalls \cup EncodeCalls

\* The calls that run side by side.
ConcCalls ==
  {Call("decode", <<String(TMap({<<Chars("hello"), TSeq(<<Chars("world")>>)>>}))>>, <<>>, "none"),
   Call("encode", <<Dict(<<<<SA, NewList(<<IntOne>>)>>>>)>>, <<>>, "none"),
   Call("encode", <<Float(5)>>, <<>>, "none"),
   Call("convert", <<GoSlice(<<One, GoStruct>>)>>, <<>>, "none")}

-----------------------------------------------------------------------------
(* The specifications.                                                     *)

InitCall ==
  /\ pc = [p \in Procs |-> IF call[p].fn = "idle" THEN "idle" ELSE "start"]
  /\ stack = [p \in Procs |-> <<>>]
  /\ ret = [p \in Procs |-> NoRet]
  /\ blob = [p \in Procs |-> Unset]
  /\ inflated = [p \in Procs |-> GoNil]
  /\ buf = [p \in Procs |-> Unset]
  /\ jsonObj = [p \in Procs |-> GoNil]
  /\ yamlBytes = [p \in Procs |-> Unset]
  /\ out = [p \in Procs |-> [val |-> Nil, err |-> NoErr]]
  /\ trace = [p \in Procs |-> <<>>]

\* One call, of any kind, on any input.
Init ==
  /\ call \in {[p \in Procs |-> IF p = 1 THEN c ELSE Idle] : c \in Calls}
  /\ InitCall

\* A call in every process.
InitConc ==
  /\ call \in [Procs -> ConcCalls]
  /\ InitCall

Next ==
  \E p \in Procs :
    \/ Convert(p)
    \/ MapNext(p)
    \/ MapRecv(p)
    \/ MapDone(p)
    \/ SliceNext(p)
    \/ SliceRecv(p)
    \/ SliceDone(p)
    \/ WalkReturn(p)
    \/ yamlDecodeUnpack(p)
    \/ yamlDecodeUnmarshal(p)
    \/ yamlDecodeConvert(p)
    \/ yamlEncodeUnpack(p)
    \/ yamlEncodeWriteJSON(p)
    \/ yamlEncodeUnmarshal(p)
    \/ yamlEncodeMarshal(p)
    \/ RoundTrip(p)

Spec == Init /\ [][Next]_vars

SpecConc == InitConc /\ [][Next]_vars

-----------------------------------------------------------------------------
(* What the claims are stated with: the kinds of the data model, the value *)
(* a scalar stands for, and the walk done in one fixed order.              *)

ScalarKinds ==
  {"nil", "bool", "string"} \cup SignedKinds \cup UnsignedKinds \cup FloatKinds
IsScalar(obj) == obj.kind \in ScalarKinds

\* The number an integer value stands for, read at the value's own width.
MathOf(obj) ==
  IF obj.kind \in SignedKinds /\ SignBit(obj.bytes)
    THEN StarInt(TRUE, ZeroExtend(Negate(obj.bytes)))
  ELSE StarInt(FALSE, ZeroExtend(obj.bytes))

ExpectedScalar(obj) ==
  CASE obj.kind = "nil" -> None
    [] obj.kind = "bool" -> Bool(obj.b)
    [] obj.kind \in SignedKinds \cup UnsignedKinds -> MathOf(obj)
    [] obj.kind \in FloatKinds -> Float(obj.h)
    [] obj.kind = "string" -> String(obj.s)

\* The value the walk was called on, and whether it has returned.
Input(p) == IF call[p].fn = "convert" THEN call[p].args[1] ELSE inflated[p]
Converted(p) ==
  pc[p] = "done" /\ call[p].fn \in {"convert", "decode"} /\ ret[p] # NoRet

RECURSIVE Supported(_)
Supported(obj) ==
  \/ IsScalar(obj)
  \/ obj.kind = "slice" /\ \A i \in 1 .. Len(obj.elems) : Supported(obj.elems[i])
  \/ obj.kind = "map" /\ \A en \in obj.entries : IsScalar(en[1]) /\ Supported(en[2])

\* No map has two keys that are one Starlark key.
RECURSIVE CollisionFree(_)
CollisionFree(obj) ==
  \/ obj.kind \notin {"slice", "map"}
  \/ obj.kind = "slice" /\ \A i \in 1 .. Len(obj.elems) : CollisionFree(obj.elems[i])
  \/ /\ obj.kind = "map"
     /\ \A en \in obj.entries : CollisionFree(en[2])
     /\ \A a, b \in obj.entries :
          (a # b /\ IsScalar(a[1]) /\ IsScalar(b[1]))
            => ~Equal(ExpectedScalar(a[1]), ExpectedScalar(b[1]))

\* val holds what obj holds: lists item by item, maps pair by pair.
RECURSIVE Preserved(_, _)
Preserved(obj, val) ==
  CASE IsScalar(obj) -> val = ExpectedScalar(obj)
    [] obj.kind = "slice" ->
         /\ val.t = "list" /\ Len(val.elems) = Len(obj.elems)
         /\ \A i \in 1 .. Len(obj.elems) : Preserved(obj.elems[i], val.elems[i])
    [] obj.kind = "map" ->
         /\ val.t = "dict"
         /\ \A en \in obj.entries :
              \E i \in 1 .. Len(val.items) :
                /\ Equal(val.items[i][1], ExpectedScalar(en[1]))
                /\ Preserved(en[2], val.items[i][2])
    [] OTHER -> FALSE

\* The conversion of obj fails (in whatever order its maps are walked).
RECURSIVE Fails(_)
Fails(obj) ==
  /\ ~IsScalar(obj)
  /\ \/ obj.kind \notin {"slice", "map"}
     \/ obj.kind = "slice" /\ \E i \in 1 .. Len(obj.elems) : Fails(obj.elems[i])
     \/ obj.kind = "map" /\ \E en \in obj.entries : ~IsScalar(en[1]) \/ Fails(en[2])

\* Every value in obj is of a kind of the data model.
RECURSIVE InDataModel(_)
InDataModel(obj) ==
  \/ IsScalar(obj)
  \/ obj.kind = "slice" /\ \A i \in 1 .. Len(obj.elems) : InDataModel(obj.elems[i])
  \/ obj.kind = "map"
       /\ \A en \in obj.entries : InDataModel(en[1]) /\ InDataModel(en[2])

HasCompoundKeyEntry(obj) ==
  obj.kind = "map" /\ \E en \in obj.entries : en[1].kind \in {"slice", "map"}

\* Some map in obj, at whatever depth, has a list or a map for a key.
RECURSIVE HasCompoundKey(_)
HasCompoundKey(obj) ==
  \/ HasCompoundKeyEntry(obj)
  \/ obj.kind = "slice" /\ \E i \in 1 .. Len(obj.elems) : HasCompoundKey(obj.elems[i])
  \/ obj.kind = "map" /\ \E en \in obj.entries : HasCompoundKey(en[2])

\* No map in obj has two entries that fail.
RECURSIVE AtMostOneFailing(_)
AtMostOneFailing(obj) ==
  \/ obj.kind \notin {"slice", "map"}
  \/ obj.kind = "slice" /\ \A i \in 1 .. Len(obj.elems) : AtMostOneFailing(obj.elems[i])
  \/ /\ obj.kind = "map"
     /\ \A en \in obj.entries : AtMostOneFailing(en[2])
     /\ Cardinality({en \in obj.entries : ~IsScalar(en[1]) \/ Fails(en[2])}) <= 1

\* The walk with every map taken in one fixed order.
RECURSIVE RefConvert(_), RefSlice(_, _), RefMap(_, _, _)
RefConvert(obj) ==
  IF IsScalar(obj) THEN [val |-> ExpectedScalar(obj), err |-> NoErr]
  ELSE IF obj.kind = "map" THEN RefMap(obj, obj.entries, <<>>)
  ELSE IF obj.kind = "slice" THEN RefSlice(obj.elems, <<>>)
  ELSE [val |-> Nil, err |-> TypeError(obj)]

RefSlice(elems, done) ==
  IF elems = <<>> THEN [val |-> NewList(done), err |-> NoErr]
  ELSE LET r == RefConvert(Head(elems))
       IN IF r.err # NoErr THEN r ELSE RefSlice(Tail(elems), Append(done, r.val))

RefMap(obj, todo, items) ==
  IF todo = {} THEN [val |-> Dict(items), err |-> NoErr]
  ELSE LET en == CHOOSE en \in todo : TRUE
           r == RefConvert(en[2])
       IN IF ~IsScalar(en[1]) THEN [val |-> Nil, err |-> KeyError(obj)]
          ELSE IF r.err # NoErr THEN r
          ELSE RefMap(obj, todo \ {en},
                      SetKey(items, ExpectedScalar(en[1]), r.val).items)

\* A value with the order of its dicts' items forgotten.
RECURSIVE Canon(_)
Canon(val) ==
  CASE val.t = "list" -> [t |-> "list", elems |-> [i \in 1 .. Len(val.elems) |-> Canon(val.elems[i])]]
    [] val.t = "dict" ->
         [t |-> "dict",
          pairs |-> {<<val.items[i][1], Canon(val.items[i][2])>> : i \in 1 .. Len(val.items)}]
    [] OTHER -> val

SameOutcome(a, b) == a.err = b.err /\ Canon(a.val) = Canon(b.val)

-----------------------------------------------------------------------------
(* The claims.                                                             *)

\* C1: the conversion of a scalar (nil, a bool, an integer of any width and
\* signedness, a float, a string) succeeds and gives the Starlark value of the
\* same kind and the same value: an integer gives an int, never a float, and
\* an unsigned integer above the largest int64 keeps its value.
C1_ScalarKept ==
  \A p \in Procs :
    (Converted(p) /\ IsScalar(Input(p)))
      => /\ out[p].err = NoErr
         /\ out[p].val = ExpectedScalar(Input(p))
         /\ (Input(p).kind \in SignedKinds \cup UnsignedKinds => out[p].val.t = "int")

\* A uint64 with every bit set has been converted to the int of that value.
C1_Witness ==
  \E p \in Procs :
    /\ Converted(p)
    /\ Input(p) = GoInt("uint64", AllOnes(WordBytes))
    /\ out[p].val = StarInt(FALSE, AllOnes(WordBytes))

\* C2 as it was stated: the conversion of a tree of lists and maps with
\* scalar leaves and scalar keys succeeds and keeps every list's length and
\* order and every pair of every map.
C2_PairsKept ==
  \A p \in Procs :
    (Converted(p) /\ Supported(Input(p)))
      => out[p].err = NoErr /\ Preserved(Input(p), out[p].val)

\* C2, amended: the same for the trees none of whose maps has two keys that
\* convert to equal Starlark keys.
C2_PairsKeptDistinctKeys ==
  \A p \in Procs :
    (Converted(p) /\ Supported(Input(p)) /\ CollisionFree(Input(p)))
      => out[p].err = NoErr /\ Preserved(Input(p), out[p].val)

\* A map of two pairs, one of them holding a list, has been converted.
C2_Witness ==
  \E p \in Procs :
    /\ Converted(p)
    /\ Input(p) = GoMap({<<StrA, GoSlice(<<One, StrA>>)>>, <<One, StrA>>})
    /\ out[p].err = NoErr
    /\ Len(out[p].val.items) = 2

\* C3: the conversion of a value of the data model in which some map, at
\* whatever depth, has a list or a map for a key fails: no value is returned,
\* and the error is the unsupported-key error of a map with such a key.
C3_CompoundKeyFails ==
  \A p \in Procs :
    (Converted(p) /\ HasCompoundKey(Input(p)))
      => /\ out[p].val = Nil
         /\ out[p].err # NoErr
         /\ InDataModel(Input(p))
              => /\ out[p].err.e = "is not a supported key type"
                 /\ HasCompoundKeyEntry(out[p].err.obj)

\* A list holding a map with a list for a key has failed with that map's
\* key error.
C3_Witness ==
  \E p \in Procs :
    /\ Converted(p)
    /\ Input(p) = GoSlice(<<One, GoMap({<<GoSlice(<<StrA>>), One>>})>>)
    /\ out[p].val = Nil
    /\ out[p].err = KeyError(GoMap({<<GoSlice(<<StrA>>), One>>}))

\* A Starlark value built of scalars, lists and dicts with string keys.
RECURSIVE InSubset(_)
InSubset(x) ==
  \/ x.t \in {"NoneType", "bool", "int", "float", "string"}
  \/ x.t = "list" /\ \A i \in 1 .. Len(x.elems) : InSubset(x.elems[i])
  \/ x.t = "dict"
       /\ \A i \in 1 .. Len(x.items) :
            x.items[i][1].t = "string" /\ InSubset(x.items[i][2])

\* C4: a value built of scalars, lists and dicts with string keys is encoded
\* without error, and decoding the text gives a value equal to it, the order
\* of the items of a dict aside.
C4_RoundTrip ==
  \A p \in Procs :
    /\ (/\ pc[p] = "done" /\ call[p].fn = "encode"
        /\ Len(call[p].args) = 1 /\ call[p].fault = "none"
        /\ InSubset(call[p].args[1]))
         => out[p].err = NoErr
    /\ (pc[p] = "done" /\ call[p].rt /\ InSubset(call[p].orig))
         => out[p].err = NoErr /\ Canon(out[p].val) = Canon(call[p].orig)

UnpackErrors ==
  {"unexpected keyword arguments", "got too few arguments", "got too many arguments",
   "for parameter 1: want string"}

\* C5: a call of decode or of encode with no positional argument, with more
\* than one, or with a keyword argument fails in the unpacking of its
\* arguments, and nothing is parsed, written or converted.
C5_OneArgNoKeywords ==
  \A p \in Procs :
    (/\ pc[p] = "done" /\ call[p].fn \in {"decode", "encode"} /\ ~call[p].rt
     /\ (Len(call[p].args) # 1 \/ Len(call[p].kwargs) > 0))
      => /\ out[p].val = Nil
         /\ out[p].err.e \in UnpackErrors
         /\ ret[p] = NoRet /\ trace[p] = <<>> /\ blob[p] = Unset

EncodeSteps == <<"writeJSON", "unmarshal", "marshal">>

\* The error the i-th step of the encoder gives for call p.
StepError(p, i) ==
  CASE i = 1 -> writeJSON(call[p].args[1]).err
    [] i = 2 -> IF call[p].fault = "unmarshal" THEN FaultError("unmarshal")
                ELSE Unmarshal(writeJSON(call[p].args[1]).text).err
    [] i = 3 -> FaultError("marshal")

\* C6: the encoder runs JSON-encode, YAML-parse, YAML-serialize in this
\* order, each only after the ones before it succeeded; the error of a step
\* that fails is what encode returns, with no text; the text encode returns
\* when all three succeed is the output of the YAML-serialize step.
C6_EncodeSteps ==
  \A p \in Procs :
    /\ Len(trace[p]) <= Len(EncodeSteps)
    /\ \A i \in 1 .. Len(trace[p]) :
         /\ trace[p][i][1] = EncodeSteps[i]
         /\ i < Len(trace[p]) => trace[p][i][2]
    /\ (call[p].fn = "encode" /\ trace[p] # <<>> /\ ~trace[p][Len(trace[p])][2])
         => /\ pc[p] = "done"
            /\ out[p] = [val |-> Nil, err |-> StepError(p, Len(trace[p]))]
    /\ (call[p].fn = "encode" /\ pc[p] = "done" /\ out[p].err = NoErr)
         => /\ Len(trace[p]) = Len(EncodeSteps) /\ trace[p][Len(trace[p])][2]
            /\ out[p].val = String(yamlBytes[p])
            /\ yamlBytes[p] = Marshal(Unmarshal(writeJSON(call[p].args[1]).text).val)
    /\ (call[p].fn = "encode" /\ pc[p] = "done" /\ out[p].err # NoErr)
         => /\ out[p].val = Nil
            /\ trace[p] # <<>> => ~trace[p][Len(trace[p])][2]

\* An encode whose YAML-parse step failed has returned that step's error and
\* never ran the YAML-serialize step.
C6_Witness ==
  \E p \in Procs :
    /\ call[p].fn = "encode" /\ pc[p] = "done"
    /\ trace[p] = <<<<"writeJSON", TRUE>>, <<"unmarshal", FALSE>>>>
    /\ out[p] = [val |-> Nil, err |-> FaultError("unmarshal")]
    /\ yamlBytes[p] = Unset

Failed(r) == r # NoRet /\ r.err # NoErr

\* An error returned inside the walk goes up one frame, or out of the walk,
\* as it is.
ErrorGoesUp(p) ==
  (pc[p] = "convert" /\ Failed(ret[p]))
    => /\ ret'[p] = ret[p]
       /\ \/ stack'[p] = stack[p] /\ pc'[p] = pc[p] /\ out'[p] = out[p]
          \/ stack[p] # <<>> /\ stack'[p] = Tail(stack[p]) /\ pc'[p] = pc[p]
          \/ /\ stack[p] = <<>> /\ pc'[p] = "done"
             /\ out'[p] = [val |-> Nil, err |-> ret[p].err]

\* C7: no partial output when decoding fails.  An error comes with no value,
\* inside the walk and at its end; the error of an element, a key or a value
\* is returned unchanged by every enclosing conversion up to the root; a text
\* that does not parse gives the parse error and nothing is converted.
C7_NoPartialOutput ==
  /\ [](\A p \in Procs :
          /\ Failed(ret[p]) => ret[p].val = Nil
          /\ out[p].err # NoErr => out[p].val = Nil
          /\ (/\ pc[p] = "done" /\ call[p].fn = "decode" /\ blob[p] # Unset
              /\ Unmarshal(blob[p]).err # NoErr)
               => /\ out[p] = [val |-> Nil, err |-> Unmarshal(blob[p]).err]
                  /\ ret[p] = NoRet /\ stack[p] = <<>>)
  /\ [][\A p \in Procs : ErrorGoesUp(p)]_vars

\* The error of a value two frames down is on its way up, the loops above it
\* still holding what they had converted.
C7_Witness ==
  \E p \in Procs :
    /\ pc[p] = "convert" /\ Failed(ret[p]) /\ Len(stack[p]) >= 2
    /\ ret[p].err = TypeError(GoStruct)
    /\ stack[p][2].f = "map" /\ stack[p][2].ret # <<>>

\* C9: a list is converted from its first element on and stops at the first
\* one that fails: every element before it has been converted, none after
\* it, and its error is what the list returns.
C9_ListFailFast ==
  /\ [](\A p \in Procs :
          (Walking(p, "slice") /\ Failed(ret[p]))
            => LET fr == Top(p)
               IN /\ Fails(fr.obj.elems[fr.i + 1])
                  /\ \A j \in 1 .. fr.i :
                       ~Fails(fr.obj.elems[j]) /\ fr.starvals[j] # Nil
                  /\ \A j \in fr.i + 1 .. Len(fr.obj.elems) : fr.starvals[j] = Nil)
  /\ [][\A p \in Procs :
          (Walking(p, "slice") /\ Failed(ret[p]))
            => \/ stack'[p] = stack[p] /\ ret'[p] = ret[p]
               \/ stack'[p] = Tail(stack[p]) /\ ret'[p] = ret[p]]_vars

\* The second of three elements has failed: the first is converted, the
\* third is not.
C9_Witness ==
  \E p \in Procs :
    /\ Walking(p, "slice") /\ Failed(ret[p])
    /\ Top(p).i = 1 /\ Len(Top(p).obj.elems) = 3
    /\ Top(p).starvals[1] # Nil /\ Top(p).starvals[3] = Nil

\* C10 as it was stated: whatever the order in which the entries of the maps
\* are taken, the conversion of a value gives one outcome, the same error or
\* the same pairs.
C10_OrderFree ==
  \A p \in Procs :
    Converted(p) => SameOutcome(out[p], RefConvert(Input(p)))

\* C10, amended: whatever the order, the conversion of a value fails or
\* succeeds alike; it gives the same pairs when no map of the value has two
\* keys that convert to equal Starlark keys, and the same error when no map
\* of the value has two failing entries.
C10_OrderFreeDistinct ==
  \A p \in Procs :
    Converted(p)
      => LET ref == RefConvert(Input(p))
         IN /\ (out[p].err = NoErr) = (ref.err = NoErr)
            /\ (out[p].err = NoErr /\ CollisionFree(Input(p)))
                 => Canon(out[p].val) = Canon(ref.val)
            /\ (out[p].err # NoErr /\ AtMostOneFailing(Input(p)))
                 => out[p].err = ref.err

\* A map of two pairs has been converted in the other order than the fixed
\* one, to a dict with the same pairs.
C10_Witness ==
  \E p \in Procs :
    /\ Converted(p)
    /\ Input(p).kind = "map" /\ Cardinality(Input(p).entries) = 2
    /\ CollisionFree(Input(p))
    /\ out[p].err = NoErr
    /\ out[p].val # RefConvert(Input(p)).val
    /\ Canon(out[p].val) = Canon(RefConvert(Input(p)).val)

\* What a call returns when it runs alone, its maps walked in the fixed order.
AloneDecode(c) ==
  LET err == UnpackPositionalArgs(c.args, <<>>, 1, "string")
      r == Unmarshal(c.args[1].s)
  IN IF err # NoErr THEN [val |-> Nil, err |-> err]
     ELSE IF r.err # NoErr THEN [val |-> Nil, err |-> r.err]
     ELSE RefConvert(r.val)

AloneEncode(c) ==
  LET err == UnpackPositionalArgs(c.args, <<>>, 1, "Value")
      js == writeJSON(c.args[1])
      r == Unmarshal(js.text)
  IN IF err # NoErr THEN [val |-> Nil, err |-> err]
     ELSE IF js.err # NoErr THEN [val |-> Nil, err |-> js.err]
     ELSE IF c.fault = "unmarshal" THEN [val |-> Nil, err |-> FaultError("unmarshal")]
     ELSE IF r.err # NoErr THEN [val |-> Nil, err |-> r.err]
     ELSE IF c.fault = "marshal" THEN [val |-> Nil, err |-> FaultError("marshal")]
     ELSE [val |-> String(Marshal(r.val)), err |-> NoErr]

Alone(c) ==
  CASE c.fn = "decode" -> AloneDecode(c)
    [] c.fn = "encode" -> AloneEncode(c)
    [] c.fn = "convert" -> RefConvert(c.args[1])

\* What belongs to call p.
Own(p) ==
  <<call[p], pc[p], stack[p], ret[p], blob[p], inflated[p], buf[p], jsonObj[p],
    yamlBytes[p], out[p], trace[p]>>

\* C8: calls that run side by side share nothing.  However their steps are
\* interleaved, a call returns what it returns alone, and a step of one call
\* leaves what belongs to the other calls as it was.
C8_CallsIndependent ==
  /\ [](\A p \in Procs : pc[p] = "done" => SameOutcome(out[p], Alone(call[p])))
  /\ [][\E p \in Procs : \A q \in Procs \ {p} : Own(q)' = Own(q)]_vars

\* One encode has returned its text while another, of another value, has
\* written its JSON and not yet parsed it.
C8_Witness ==
  \E p, q \in Procs :
    /\ p # q
    /\ pc[p] = "done" /\ call[p].fn = "encode" /\ out[p].err = NoErr
    /\ Len(trace[p]) = Len(EncodeSteps)
    /\ call[q].fn = "encode" /\ pc[q] = "unmarshal"
    /\ call[q].args # call[p].args
    /\ buf[q] # Unset /\ buf[q] # buf[p]

====
